---- MODULE Spec2Model ----
(***************************************************************************)
(* Model of the Gitea backend (src/src/lib/services/backends/gitea.js) and *)
(* of the session manager (src/src/lib/services/user/auth.js).             *)
(*                                                                         *)
(* Every asynchronous function is a chain of continuations: an action of   *)
(* the model is one resumption of a suspended flow (the answer to the      *)
(* request it awaits) and runs the synchronous code up to the next await,  *)
(* as the single-threaded event loop does.  The continuations are          *)
(* operators on a record S holding the state a flow can touch: its own     *)
(* frame (local variables, position) and the shared stores.                *)
(***************************************************************************)
EXTENDS Integers, Sequences, FiniteSets, TLC

\* ------------------------------------------------------------------ bounds
MaxEntries == 3
MaxPageSize == 2
MaxPagingNum == 2
MaxBulkRequests == 4
MaxFetchCalls == 2
MaxFlows == 3
MaxOverlap == 2
MaxChanges == 2

\* ------------------------------------------------------- program constants
\* MIN_GITEA_VERSION = 1.24, in thousandths (ParseFloat yields thousandths).
MIN_GITEA_VERSION == 1240
\* `default_paging_num: perPage = 30`
DEFAULT_PER_PAGE == 30

\* ------------------------------------------------------------ JS values
\* `undefined`/`null` is the empty tuple, a present value x is <<x>>.
Undefined == <<>>
Some(x) == <<x>>
IsDefined(o) == o # <<>>
ValueOf(o) == o[1]

Min(a, b) == IF a <= b THEN a ELSE b
Max(a, b) == IF a >= b THEN a ELSE b
\* Math.ceil(a / b) for a >= 0, b > 0
CeilDiv(a, b) == (a + b - 1) \div b

Range(s) == {s[i] : i \in DOMAIN s}

\* An Error: message, name, and cause {message, status}; status 0 is "no status".
NoError == [message |-> "", name |-> "", cause |-> [message |-> "", status |-> 0]]
NewError(message, causeMessage) ==
  [message |-> message, name |-> "Error", cause |-> [message |-> causeMessage, status |-> 0]]
\* What fetchAPIWithAuth throws for a non-2xx answer: the HTTP status is in `cause`.
ApiError(status) ==
  [message |-> "Server responded with an error", name |-> "Error",
   cause |-> [message |-> "http_error", status |-> status]]

Statuses == {401, 403, 404, 500}
AuthStatuses == {401, 403, 404}

\* ------------------------------------------------------ version strings
\* A version string is the sequence of its characters.
V_1_24_0 == <<"1", ".", "2", "4", ".", "0">>
V_1_23_4 == <<"1", ".", "2", "3", ".", "4">>
V_FORGEJO_11 == <<"1", "1", ".", "0", "+", "g", "i", "t", "e", "a", "-", "1", ".", "2", "2">>
V_FORGEJO_1_21 == <<"1", ".", "2", "1", "+", "g", "i", "t", "e", "a", "-", "1", ".", "2", "0">>
Versions == {V_1_24_0, V_1_23_4, V_FORGEJO_11, V_FORGEJO_1_21}
FORGEJO_MARKER == <<"+", "g", "i", "t", "e", "a", "-">>

\* String.prototype.includes
Includes(s, pat) ==
  \E i \in 1..(Len(s) - Len(pat) + 1) : SubSeq(s, i, i + Len(pat) - 1) = pat

Digits == {"0", "1", "2", "3", "4", "5", "6", "7", "8", "9"}
DigitVal(c) ==
  CASE c = "0" -> 0 [] c = "1" -> 1 [] c = "2" -> 2 [] c = "3" -> 3 [] c = "4" -> 4
    [] c = "5" -> 5 [] c = "6" -> 6 [] c = "7" -> 7 [] c = "8" -> 8 [] c = "9" -> 9

\* The length of the run of digits of s that starts at position i.
RECURSIVE DigitRun(_, _)
DigitRun(s, i) ==
  IF i <= Len(s) /\ s[i] \in Digits THEN 1 + DigitRun(s, i + 1) ELSE 0

RECURSIVE DigitsValue(_)
DigitsValue(ds) ==
  IF ds = <<>> THEN 0 ELSE 10 * DigitsValue(SubSeq(ds, 1, Len(ds) - 1)) + DigitVal(ds[Len(ds)])

\* Number.parseFloat on an unsigned decimal prefix: [nan, milli], milli the value
\* in thousandths, rounded down (exact for a comparison with a multiple of 0.001).
ParseFloat(s) ==
  LET n == DigitRun(s, 1)
      hasDot == n + 1 <= Len(s) /\ s[n + 1] = "."
      m == IF hasDot THEN DigitRun(s, n + 2) ELSE 0
      frac == SubSeq(s, n + 2, n + 1 + Min(m, 3))
      pad == CASE Len(frac) = 0 -> 1000 [] Len(frac) = 1 -> 100 [] Len(frac) = 2 -> 10
               [] OTHER -> 1
  IN IF n = 0 /\ m = 0 THEN [nan |-> TRUE, milli |-> 0]
     ELSE [nan |-> FALSE,
           milli |-> 1000 * DigitsValue(SubSeq(s, 1, n))
                     + (IF Len(frac) = 0 THEN 0 ELSE pad * DigitsValue(frac))]

\* x < c in JavaScript: false when x is NaN
LessThan(x, c) == ~x.nan /\ x.milli < c

\* ------------------------------------------------------------- objects
\* A user object {backendName, token}; "" stands for a missing property, so
\* Obj("", "") is the empty object {} and Obj("", t) is {token: t}.
Obj(bn, tok) == [backendName |-> bn, token |-> tok]
EmptyObject == Obj("", "")
\* Object.keys(o)
ObjectKeys(o) ==
  (IF o.backendName # "" THEN {"backendName"} ELSE {})
    \cup (IF o.token # "" THEN {"token"} ELSE {})

Tokens == {"t1", "t2"}
StorageKeys == {"sveltia-cms.user", "decap-cms-user", "netlify-cms-user"}
BackendNames == {"gitea", "local"}

\* ------------------------------------------------------------------ state
VARIABLES
  tree,                     \* provider: the repository tree, one kind per path 1..N
  pageSize,                 \* provider: tree entries per page
  pagingNum,                \* provider: default_paging_num of /settings/api, if any
  version,                  \* provider: the version string of /version
  inPopup,                  \* window.opener?.origin === origin && window.name === 'auth'
  location,                 \* the location path: <<>> or <<"signin", encodedData>>
  LocalStorage,             \* key -> Undefined | Some(object)
  repository,               \* gitea.js `repository` (RepositoryInfo)
  repositoryResponseCache,  \* gitea.js `repositoryResponseCache`
  user,                     \* store `user`
  unauthenticated,          \* store `unauthenticated`
  signInError,              \* store `signInError`
  backendName,              \* store `backendName`
  dataLoaded,               \* store `dataLoaded`
  dataLoadedProgress,       \* store `dataLoadedProgress`
  prefs,                    \* store `prefs`
  frame,                    \* per flow: position and local variables
  siteConfig,               \* the `backend` section of the site configuration
  apiConfig,                \* gitea.js `apiConfig` (ApiEndpointConfig)
  firstInit,                \* history: `repository` and `apiConfig` after the first init()
  sent,                     \* history: requests sent in the session, per endpoint
  calls,                    \* history: top-level calls started in the session
  signedOut                 \* history: signOut completed, no manual sign-in begun since

vars ==
  <<tree, pageSize, pagingNum, version, inPopup, location, LocalStorage, repository,
    repositoryResponseCache, user, unauthenticated, signInError, backendName,
    dataLoaded, dataLoadedProgress, prefs, frame, siteConfig, apiConfig, firstInit,
    sent, calls, signedOut>>

\* The flows: one per top-level operation that can be pending.
\* "backend" is an operation of the backend service other than fetchFiles, called
\* directly: frame.op names it.
Procs == {"signInAutomatically", "signInManually", "signOut", "fetchFiles", "backend"}

\* dataLoadedProgress values: a number, NaN or undefined
Num(n) == [t |-> "number", n |-> n]
NaN == [t |-> "NaN", n |-> 0]
NoProgress == [t |-> "undefined", n |-> 0]

\* A flow's frame.  pc is the await the flow is suspended at ("idle" before its
\* first call, "done" once its promise is settled), outcome/error the state of
\* its promise.  The rest are the local variables of the functions on its stack.
IdleFrame(p) ==
  [op |-> p, pc |-> "idle", outcome |-> "none", error |-> NoError,
   \* signInAutomatically / signInManually / signIn / getUserProfile
   backend |-> "", token |-> "", tokenGiven |-> FALSE, auto |-> FALSE,
   copiedPrefs |-> FALSE,
   signIn |-> "none", signInThrown |-> NoError, signedIn |-> Undefined,
   \* fetchFiles and the functions it calls
   fetch |-> "none", fetchError |-> NoError, log |-> <<>>, repoFor |-> "",
   page |-> 0, gitEntries |-> <<>>, fileList |-> <<>>, fetchingFiles |-> <<>>,
   allPaths |-> <<>>, paths |-> <<>>, batch |-> <<>>, results |-> <<>>, perPage |-> 0,
   published |-> <<>>, contents |-> <<>>,
   \* commitChanges
   changes |-> <<>>, files |-> <<>>,
   \* history of this call
   callNo |-> 0, failedAt |-> "", failedStatus |-> 0, logged |-> FALSE,
   accessRead |-> Undefined, backendCalls |-> {}]

\* The state a continuation of flow p works on.
Cur(p) ==
  [frame |-> frame[p], location |-> location, LocalStorage |-> LocalStorage,
   repository |-> repository, repositoryResponseCache |-> repositoryResponseCache,
   user |-> user, unauthenticated |-> unauthenticated, signInError |-> signInError,
   backendName |-> backendName, dataLoaded |-> dataLoaded,
   dataLoadedProgress |-> dataLoadedProgress, prefs |-> prefs, sent |-> sent,
   calls |-> calls, signedOut |-> signedOut]

\* Flow p has run to its next await (or to its end) and left the state S.  The
\* frame of a settled call is dropped when another call begins.
Apply(p, S) ==
  /\ frame' = [q \in Procs |->
                 IF q = p THEN S.frame
                 ELSE IF S.frame.callNo > frame[p].callNo /\ frame[q].pc = "done"
                   THEN IdleFrame(q)
                 ELSE frame[q]]
  /\ location' = S.location
  /\ LocalStorage' = S.LocalStorage
  /\ repository' = S.repository
  /\ repositoryResponseCache' = S.repositoryResponseCache
  /\ user' = S.user
  /\ unauthenticated' = S.unauthenticated
  /\ signInError' = S.signInError
  /\ backendName' = S.backendName
  /\ dataLoaded' = S.dataLoaded
  /\ dataLoadedProgress' = S.dataLoadedProgress
  /\ prefs' = S.prefs
  /\ sent' = S.sent
  /\ calls' = S.calls
  /\ signedOut' = S.signedOut
  /\ UNCHANGED <<tree, pageSize, pagingNum, version, inPopup, siteConfig, apiConfig,
                 firstInit>>

\* The top-level operation of the flow is called: a new frame.
Called(S) ==
  [S EXCEPT !.frame = [IdleFrame(S.frame.op) EXCEPT !.callNo = S.calls + 1],
            !.calls = @ + 1]

\* fetchAPI(path): the request is sent (and the flow suspends until it is answered).
\* arg is the page number of a tree request, the number of files of a bulk request.
Request(S, endpoint, arg) ==
  [S EXCEPT !.frame.log = Append(@, [endpoint |-> endpoint, arg |-> arg]),
            !.sent = IF endpoint \in DOMAIN @ THEN [@ EXCEPT ![endpoint] = @ + 1] ELSE @]

\* The answer to a request was an error of this status.
Failed(S, endpoint, status) ==
  [S EXCEPT !.frame.failedAt = IF @ = "" THEN endpoint ELSE @,
            !.frame.failedStatus = IF S.frame.failedAt = "" THEN status ELSE @]

\* ------------------------------------------------------------- provider
\* The entry of the tree at path i, as the tree endpoint lists it.
GitEntry(i) == [path |-> i, type |-> IF tree[i] = "dir" THEN "tree" ELSE "blob"]
GitEntries == [i \in 1..Len(tree) |-> GitEntry(i)]
\* GET /repos/{owner}/{repo}/git/trees/{sha}?recursive=1&page=k
TreePage(k) ==
  [tree |-> SubSeq(GitEntries, (k - 1) * pageSize + 1, Min(k * pageSize, Len(tree))),
   truncated |-> k * pageSize < Len(tree)]
\* The base64 content of the file at a path, and its decoding.
EncodeBase64(text) == <<"base64", text>>
DecodeBase64(content) == content[2]
\* POST /repos/{owner}/{repo}/file-contents: one item per requested file
FileContents(files) ==
  [i \in 1..Len(files) |-> [content |-> Some(EncodeBase64(files[i])), encoding |-> "base64"]]
\* GET /repos/{owner}/{repo}: permissions (if any) and default_branch ("" if none)
RepositoryResponses ==
  {[permissions |-> Some([pull |-> TRUE]), default_branch |-> "main"],
   [permissions |-> Some([pull |-> TRUE]), default_branch |-> ""],
   [permissions |-> Some([pull |-> FALSE]), default_branch |-> "main"],
   [permissions |-> Undefined, default_branch |-> "main"]}

\* --------------------------------------------------------------- auth.js
NoSignInError == [message |-> "", canRetry |-> FALSE]

\* The promise of the flow's top-level call settles.
Resolve(S) == [S EXCEPT !.frame.pc = "done", !.frame.outcome = "resolved"]
Reject(S, ex) ==
  [S EXCEPT !.frame.pc = "done", !.frame.outcome = "rejected", !.frame.error = ex]

LogError(S, ex) ==
  LET message == IF ex.cause.message # "" THEN ex.cause.message ELSE "unexpected_error"
      notFound == ex.name = "NotFoundError"
      aborted == ex.name = "AbortError"
  IN [S EXCEPT
        !.signInError =
          [message |->
             IF aborted
               THEN (IF S.backendName = Some("local")
                       THEN "sign_in_error.picker_dismissed"
                       ELSE "sign_in_error.authentication_aborted")
             ELSE IF notFound THEN "sign_in_error.not_project_root"
             ELSE message,
           canRetry |-> notFound \/ aborted],
        !.frame.logged = TRUE]

\* signInAutomatically, after `await _backend.fetchFiles()`
AutoFetchResolved(S) == Resolve([S EXCEPT !.signInError = NoSignInError])
AutoFetchRejected(S, ex) ==
  Resolve(IF ex.cause.status \in {401, 403, 404}
            THEN [S EXCEPT !.unauthenticated = TRUE]
            ELSE LogError(S, ex))

\* signInManually, after `await _backend.fetchFiles()`
ManualFetchResolved(S) == Resolve([S EXCEPT !.signInError = NoSignInError])
ManualFetchRejected(S, ex) == Resolve(LogError(S, ex))

\* The promise of fetchFiles() settles and its caller goes on.
FetchFilesResolved(S0) ==
  LET S == [S0 EXCEPT !.frame.fetch = "resolved"]
  IN CASE S.frame.op = "signInAutomatically" -> AutoFetchResolved(S)
       [] S.frame.op = "signInManually" -> ManualFetchResolved(S)
       [] OTHER -> Resolve(S)
FetchFilesRejected(S0, ex) ==
  LET S == [S0 EXCEPT !.frame.fetch = "rejected", !.frame.fetchError = ex]
  IN CASE S.frame.op = "signInAutomatically" -> AutoFetchRejected(S, ex)
       [] S.frame.op = "signInManually" -> ManualFetchRejected(S, ex)
       [] OTHER -> Reject(S, ex)

\* -------------------------------------------------------------- gitea.js
GetBaseURLs(baseURL, branch) ==
  [treeBaseURL |-> IF branch # "" THEN baseURL \o <<"/src/branch/", branch>> ELSE baseURL,
   blobBaseURL |-> IF branch # "" THEN baseURL \o <<"/src/branch/", branch>> ELSE <<>>]

\* The `backend` section of the site configuration: of this site (repo 'o/r', the
\* default roots; branch "" is "no branch configured"), and of a site that names
\* another backend.
GiteaConfig(branch) == [name |-> "gitea", repo |-> <<"o", "/", "r">>, branch |-> branch]
OtherConfig == [name |-> "github", repo |-> <<"p", "/", "q">>, branch |-> "dev"]

\* `repository` and `apiConfig` before init()
REPOSITORY_INFO_PLACEHOLDER ==
  [service |-> "", label |-> "", owner |-> "", repo |-> "", branch |-> "",
   baseURL |-> <<>>, databaseName |-> <<>>, isSelfHosted |-> FALSE,
   treeBaseURL |-> <<>>, blobBaseURL |-> <<>>]
API_CONFIG_INFO_PLACEHOLDER ==
  [clientId |-> "", authURL |-> <<>>, tokenURL |-> <<>>, origin |-> "", restBaseURL |-> <<>>]

DEFAULT_API_ROOT == <<"https://gitea.com", "/api/v1">>
DEFAULT_AUTH_ROOT == "https://gitea.com"
DEFAULT_AUTH_PATH == <<"login/oauth", "/authorize">>

\* String.prototype.replace(pattern, replacement) on a string given by its pieces
Replace(str, pattern, replacement) ==
  IF \E i \in DOMAIN str : str[i] = pattern
    THEN LET first == CHOOSE i \in DOMAIN str :
                        str[i] = pattern /\ \A j \in 1..(i - 1) : str[j] # pattern
         IN [str EXCEPT ![first] = replacement]
    ELSE str

\* Variant of AssignRepository that keeps the branch at hand when the configuration
\* names none.
AssignRepository_KeepsBranch(target, config) ==
  LET restApiOrigin == DEFAULT_API_ROOT[1]
      owner == config.repo[1]
      repo == config.repo[3]
      baseURL == <<restApiOrigin, "/", owner, "/", repo>>
      branch == IF config.branch # "" THEN config.branch ELSE target.branch
      urls == GetBaseURLs(baseURL, branch)
  IN [target EXCEPT !.service = "gitea", !.label = "Gitea", !.owner = owner,
                    !.repo = repo, !.branch = branch, !.baseURL = baseURL,
                    !.databaseName = <<"gitea", ":", owner, "/", repo>>,
                    !.isSelfHosted = FALSE,
                    !.treeBaseURL = urls.treeBaseURL, !.blobBaseURL = urls.blobBaseURL]
\* init: `Object.assign(repository, {...}, getBaseURLs(baseURL, branch))`
AssignRepository(target, config) ==
  LET restApiOrigin == DEFAULT_API_ROOT[1]
      owner == config.repo[1]
      repo == config.repo[3]
      baseURL == <<restApiOrigin, "/", owner, "/", repo>>
      urls == GetBaseURLs(baseURL, config.branch)
  IN [target EXCEPT !.service = "gitea", !.label = "Gitea", !.owner = owner,
                    !.repo = repo, !.branch = config.branch, !.baseURL = baseURL,
                    !.databaseName = <<"gitea", ":", owner, "/", repo>>,
                    !.isSelfHosted = FALSE,
                    !.treeBaseURL = urls.treeBaseURL, !.blobBaseURL = urls.blobBaseURL]

\* init: `Object.assign(apiConfig, {...})`
AssignApiConfig(target, config) ==
  LET authURL == <<DEFAULT_AUTH_ROOT, "/">> \o DEFAULT_AUTH_PATH
      restApiOrigin == DEFAULT_API_ROOT[1]
  IN [target EXCEPT !.clientId = "", !.authURL = authURL,
                    !.tokenURL = Replace(authURL, "/authorize", "/access_token"),
                    !.origin = restApiOrigin,
                    !.restBaseURL = <<restApiOrigin, "/api/v1">>]

\* Variant of GiteaInit that does not look at the backend name.
GiteaInit_AnyBackend(config) ==
  [repository |-> AssignRepository(repository, config),
   apiConfig |-> AssignApiConfig(apiConfig, config), returned |-> TRUE]
\* init(), reading the configuration `config`: the new `repository` and `apiConfig`,
\* and whether the repository is returned (undefined for another backend).
GiteaInit(config) ==
  IF config.name # "gitea"
    THEN [repository |-> repository, apiConfig |-> apiConfig, returned |-> FALSE]
    ELSE [repository |-> AssignRepository(repository, config),
          apiConfig |-> AssignApiConfig(apiConfig, config), returned |-> TRUE]

\* `repository` after init() with the configuration {name: 'gitea', repo: 'o/r',
\* branch} and the default API root; branch "" is "no branch configured".
InitRepository(branch) == AssignRepository(REPOSITORY_INFO_PLACEHOLDER, GiteaConfig(branch))
\* `apiConfig` after init()
InitApiConfig == AssignApiConfig(API_CONFIG_INFO_PLACEHOLDER, GiteaConfig(""))
\* What the history keeps of the first init().
FirstInit(_repository, _apiConfig) ==
  Some([repository |-> _repository, apiConfig |-> _apiConfig, again |-> FALSE])

ParseFileContents(fetchingFiles, results) ==
  [path \in {fetchingFiles[i].path : i \in DOMAIN fetchingFiles} |->
     LET index == CHOOSE i \in DOMAIN fetchingFiles : fetchingFiles[i].path = path
         fileData == IF index <= Len(results) THEN Some(results[index]) ELSE Undefined
     IN [text |->
           IF /\ IsDefined(fileData)
              /\ IsDefined(ValueOf(fileData).content)
              /\ ValueOf(fileData).encoding = "base64"
             THEN Some(DecodeBase64(ValueOf(ValueOf(fileData).content)))
             ELSE Undefined]]

\* fetchAndParseFiles, after `await fetchFileContents(...)`: the stores are filled.
FetchAndParseFilesDone(S) == FetchFilesResolved([S EXCEPT !.dataLoaded = TRUE])

\* Math.ceil(((allPaths.length - paths.length) / allPaths.length) * 100)
ProgressValue(done, all) == IF all = 0 THEN NaN ELSE Num(CeilDiv(done * 100, all))

\* dataLoadedProgress.set(value)
SetProgress(S, value) ==
  [S EXCEPT !.dataLoadedProgress = value, !.frame.published = Append(@, value)]

\* fetchFileContents, the head of the loop: `paths.splice(0, perPage)` is requested
BulkFetch(S) ==
  LET n == Min(S.frame.perPage, Len(S.frame.paths))
      files == SubSeq(S.frame.paths, 1, n)
  IN Request([S EXCEPT !.frame.pc = "await_file_contents",
                       !.frame.batch = files,
                       !.frame.paths = SubSeq(@, n + 1, Len(@))],
             "/file-contents", Len(files))

\* fetchFileContents, after `await fetchAPI(requestPath, ...)`
OnFileContents(S0, result) ==
  LET f == S0.frame
      results == f.results \o result
      S == SetProgress([S0 EXCEPT !.frame.results = results, !.frame.batch = <<>>],
                       ProgressValue(Len(f.allPaths) - Len(f.paths), Len(f.allPaths)))
  IN IF Len(f.paths) # 0
       THEN BulkFetch(S)
       ELSE FetchAndParseFilesDone(
              [SetProgress(S, NoProgress) EXCEPT
                 !.frame.contents = ParseFileContents(f.fetchingFiles, results)])

\* fetchFileContents, after `await fetchAPI('/settings/api')`
OnSettings(S, default_paging_num) ==
  BulkFetch([S EXCEPT !.frame.perPage =
               IF IsDefined(default_paging_num) THEN ValueOf(default_paging_num)
               ELSE DEFAULT_PER_PAGE])

\* fetchFileContents, up to `await fetchAPI('/settings/api')`
FetchFileContents(S, fetchingFiles) ==
  LET NotAsset(file) == file.type # "asset"
      entries == SelectSeq(fetchingFiles, NotAsset)
      allPaths == [i \in 1..Len(entries) |-> entries[i].path]
  IN Request(SetProgress([S EXCEPT !.frame.pc = "await_settings",
                                   !.frame.fetchingFiles = fetchingFiles,
                                   !.frame.allPaths = allPaths,
                                   !.frame.paths = allPaths,
                                   !.frame.results = <<>>,
                                   !.frame.published = <<>>],
                         Num(0)),
             "/settings/api", 0)

\* fetchAndParseFiles, after `await fetchFileList(lastHash)`: every listed file is
\* given its type (entry or asset) and its contents are fetched.
OnFileList(S, fileList) ==
  FetchFileContents([S EXCEPT !.frame.fileList = fileList],
                    [i \in 1..Len(fileList) |->
                       [path |-> fileList[i].path, sha |-> fileList[i].sha,
                        type |-> tree[fileList[i].path]]])

\* fetchFileList: `await fetchAPI(`${requestPath}&page=${page}`)`
TreeRequest(S) == Request([S EXCEPT !.frame.pc = "await_tree"], "/git/trees", S.frame.page)

\* Variant of OnTreePage that goes on to the page after the next one.
OnTreePage_SkipsPage(S0, result) ==
  LET S == [S0 EXCEPT !.frame.gitEntries = @ \o result.tree]
      IsBlob(entry) == entry.type = "blob"
      blobs == SelectSeq(S.frame.gitEntries, IsBlob)
  IN IF result.truncated
       THEN TreeRequest([S EXCEPT !.frame.page = @ + 2])
       ELSE OnFileList(S, [i \in 1..Len(blobs) |->
                             [path |-> blobs[i].path, sha |-> blobs[i].path]])
\* Variant of OnTreePage that keeps only the entries of the page just read.
OnTreePage_LastPageOnly(S0, result) ==
  LET S == [S0 EXCEPT !.frame.gitEntries = result.tree]
      IsBlob(entry) == entry.type = "blob"
      blobs == SelectSeq(S.frame.gitEntries, IsBlob)
  IN IF result.truncated
       THEN TreeRequest([S EXCEPT !.frame.page = @ + 1])
       ELSE OnFileList(S, [i \in 1..Len(blobs) |->
                             [path |-> blobs[i].path, sha |-> blobs[i].path]])
\* fetchFileList, after the answer to a page
OnTreePage(S0, result) ==
  LET S == [S0 EXCEPT !.frame.gitEntries = @ \o result.tree]
      IsBlob(entry) == entry.type = "blob"
      blobs == SelectSeq(S.frame.gitEntries, IsBlob)
  IN IF result.truncated
       THEN TreeRequest([S EXCEPT !.frame.page = @ + 1])
       ELSE OnFileList(S, [i \in 1..Len(blobs) |->
                             [path |-> blobs[i].path, sha |-> blobs[i].path]])

\* fetchFileList, up to the request of the first page
FetchFileList(S) ==
  TreeRequest([S EXCEPT !.frame.page = 1, !.frame.gitEntries = <<>>])

\* fetchLastCommit
FetchLastCommit(S) == Request([S EXCEPT !.frame.pc = "await_branch"], "/branches", 0)
OnLastCommit(S) == FetchFileList(S)
LastCommitCatch(error) ==
  NewError("Failed to retrieve the last commit hash.", "branch_not_found")

\* fetchDefaultBranchName: what the `try` block throws for a repository response
DefaultBranchThrown(response) ==
  IF response.default_branch = ""
    THEN Some(NewError("Failed to retrieve the default branch name.", "repository_empty"))
    ELSE Undefined
\* fetchDefaultBranchName: the `catch` clause
DefaultBranchCatch(error) ==
  NewError("Failed to retrieve the default branch name.", "repository_not_found")

\* Variant of fetchDefaultBranchName that assigns the branch and leaves the URLs.
ResolveDefaultBranch_KeepsURLs(S) ==
  LET response == ValueOf(S.repositoryResponseCache)
      thrown == DefaultBranchThrown(response)
  IN IF IsDefined(thrown)
       THEN FetchFilesRejected(S, DefaultBranchCatch(ValueOf(thrown)))
       ELSE FetchLastCommit([S EXCEPT !.repository.branch = response.default_branch])
\* fetchDefaultBranchName, once the repository response is cached
ResolveDefaultBranch(S) ==
  LET response == ValueOf(S.repositoryResponseCache)
      thrown == DefaultBranchThrown(response)
      branch == response.default_branch
      urls == GetBaseURLs(S.repository.baseURL, branch)
  IN IF IsDefined(thrown)
       THEN FetchFilesRejected(S, DefaultBranchCatch(ValueOf(thrown)))
       ELSE FetchLastCommit([S EXCEPT !.repository.branch = branch,
                                      !.repository.treeBaseURL = urls.treeBaseURL,
                                      !.repository.blobBaseURL = urls.blobBaseURL])

\* fetchDefaultBranchName: `repositoryResponseCache ??= await getRepositoryInfo()`
FetchDefaultBranchName(S) ==
  IF IsDefined(S.repositoryResponseCache)
    THEN ResolveDefaultBranch(S)
    ELSE Request([S EXCEPT !.frame.pc = "await_repository",
                           !.frame.repoFor = "fetchDefaultBranchName"], "/repos", 0)

\* fetchAndParseFiles: the default branch is resolved if none is configured, then
\* the last commit, the file list and the file contents are fetched.
FetchAndParseFiles(S) ==
  IF S.repository.branch = "" THEN FetchDefaultBranchName(S) ELSE FetchLastCommit(S)

\* checkRepositoryAccess: what the `try` block throws for a repository response
AccessThrown(response) ==
  IF ~(IsDefined(response.permissions) /\ ValueOf(response.permissions).pull)
    THEN Some(NewError("Not a collaborator of the repository", "repository_no_access"))
    ELSE Undefined
\* The messages with error.message.includes('Not a collaborator')
NotACollaboratorMessages == {"Not a collaborator of the repository"}
\* Variant of AccessCatch that wraps every error, the access-denied one included.
AccessCatch_AlwaysWraps(error) ==
  NewError("Failed to check repository access", "repository_not_found")
\* checkRepositoryAccess: the `catch` clause
AccessCatch(error) ==
  IF error.message \in NotACollaboratorMessages
    THEN error
    ELSE NewError("Failed to check repository access", "repository_not_found")

\* checkRepositoryAccess, once the repository response is cached
CheckPermissions(S0) ==
  LET thrown == AccessThrown(ValueOf(S0.repositoryResponseCache))
      S == [S0 EXCEPT !.frame.accessRead = S0.repositoryResponseCache]
  IN IF IsDefined(thrown)
       THEN FetchFilesRejected(S, AccessCatch(ValueOf(thrown)))
       ELSE FetchAndParseFiles(S)

\* checkRepositoryAccess: `repositoryResponseCache ??= await getRepositoryInfo()`
CheckRepositoryAccess(S) ==
  IF IsDefined(S.repositoryResponseCache)
    THEN CheckPermissions(S)
    ELSE Request([S EXCEPT !.frame.pc = "await_repository",
                           !.frame.repoFor = "checkRepositoryAccess"], "/repos", 0)

\* The answer to getRepositoryInfo() is assigned to the cache; its caller goes on.
OnRepository(S0, response) ==
  LET S == [S0 EXCEPT !.repositoryResponseCache = Some(response)]
  IN IF S.frame.repoFor = "checkRepositoryAccess"
       THEN CheckPermissions(S)
       ELSE ResolveDefaultBranch(S)
OnRepositoryFailed(S, error) ==
  FetchFilesRejected(S, IF S.frame.repoFor = "checkRepositoryAccess"
                          THEN AccessCatch(error)
                          ELSE DefaultBranchCatch(error))

\* Variant of VersionThrown that compares the numeric prefix before looking for
\* the Forgejo marker.
VersionThrown_NumericFirst(v) ==
  IF LessThan(ParseFloat(v), MIN_GITEA_VERSION)
    THEN Some(NewError("Unsupported Gitea version", "backend_unsupported_version"))
  ELSE IF Includes(v, FORGEJO_MARKER)
    THEN Some(NewError("Unsupported Forgejo version", "backend_unsupported_forgejo"))
  ELSE Undefined
\* checkGiteaVersion: what it throws for a version string
VersionThrown(v) ==
  IF Includes(v, FORGEJO_MARKER)
    THEN Some(NewError("Unsupported Forgejo version", "backend_unsupported_forgejo"))
  ELSE IF LessThan(ParseFloat(v), MIN_GITEA_VERSION)
    THEN Some(NewError("Unsupported Gitea version", "backend_unsupported_version"))
  ELSE Undefined

\* fetchFiles, after `await checkGiteaVersion()`
OnVersion(S, response) ==
  LET thrown == VersionThrown(response.version)
  IN IF IsDefined(thrown)
       THEN FetchFilesRejected(S, ValueOf(thrown))
       ELSE CheckRepositoryAccess(S)

\* Variant of FetchFiles that requests the version only when no call of the
\* session has requested it yet.
FetchFiles_OncePerSession(S) ==
  IF S.sent["/version"] > 0
    THEN CheckRepositoryAccess([S EXCEPT !.frame.fetch = "pending"])
    ELSE Request([S EXCEPT !.frame.pc = "await_version", !.frame.fetch = "pending"],
                 "/version", 0)
\* fetchFiles, up to `await fetchAPI('/version')`
FetchFiles(S) ==
  Request([S EXCEPT !.frame.pc = "await_version", !.frame.fetch = "pending"],
          "/version", 0)

\* fetchBlob(asset)
FetchBlob(S) == Request([S EXCEPT !.frame.pc = "await_media"], "/media", 0)

\* A FileChange {action, path, previousPath, data}; previousPath is given for a
\* move, data for all but a delete.
Change(action, path, previousPath, data) ==
  [action |-> action, path |-> path, previousPath |-> previousPath, data |-> data]
\* Variant of CommitFiles that submits every change under its own action.
CommitFiles_KeepsAction(changes) ==
  [i \in DOMAIN changes |->
     [operation |-> changes[i].action,
      path |-> changes[i].path,
      content |-> EncodeBase64(IF IsDefined(changes[i].data)
                                 THEN ValueOf(changes[i].data) ELSE ""),
      from_path |-> changes[i].previousPath]]
\* commitChanges: the `files` of the request, one per change
CommitFiles(changes) ==
  [i \in DOMAIN changes |->
     [operation |-> IF changes[i].action = "move" THEN "update" ELSE changes[i].action,
      path |-> changes[i].path,
      content |-> EncodeBase64(IF IsDefined(changes[i].data)
                                 THEN ValueOf(changes[i].data) ELSE ""),
      from_path |-> changes[i].previousPath]]
TypeError == [message |-> "Cannot destructure", name |-> "TypeError",
              cause |-> [message |-> "", status |-> 0]]
\* commitChanges(changes, options), up to `await fetchAPI(.../contents, ...)`
CommitChanges(S, changes) ==
  IF ~IsDefined(S.user)
    THEN Reject([S EXCEPT !.frame.changes = changes], TypeError)
    ELSE Request([S EXCEPT !.frame.pc = "await_contents",
                           !.frame.changes = changes,
                           !.frame.files = CommitFiles(changes)],
                 "/contents", Len(changes))

\* ------------------------------------------------ the `backend` store
\* get(backend): the service registered under the name in `backendName`, if any.
Backend(name) ==
  IF IsDefined(name) /\ ValueOf(name) \in BackendNames THEN name ELSE Undefined
\* get(siteConfig).backend.name
SiteBackendName == "gitea"

\* user.set(value); a signed-in user is kept in the local credential cache
SetUser(S, value) ==
  [S EXCEPT !.user = value,
            !.LocalStorage["sveltia-cms.user"] = IF IsDefined(value) THEN value ELSE @]

\* The local backend: its operations settle as their contract allows.
LocalSignIn(S) == [S EXCEPT !.frame.pc = "await_local_sign_in"]
LocalFetchFiles(S) == [S EXCEPT !.frame.pc = "await_local_fetch", !.frame.fetch = "pending"]

\* _backend.fetchFiles()
BackendFetchFiles(S0) ==
  LET S == [S0 EXCEPT !.frame.backendCalls = @ \cup {"fetchFiles"}]
  IN IF S.frame.backend = "gitea" THEN FetchFiles(S) ELSE LocalFetchFiles(S)

\* signInAutomatically, after `_user = await _backend.signIn(...)`
AutoAfterSignIn(S0, _user) ==
  LET S == [S0 EXCEPT !.unauthenticated = ~IsDefined(_user)]
  IN IF ~IsDefined(_user)
       THEN Resolve(S)
       ELSE BackendFetchFiles(
              [SetUser(S, _user) EXCEPT
                 !.prefs = IF S.frame.copiedPrefs THEN "copied" ELSE @])
\* signInAutomatically, the `catch` clause of the sign-in
AutoSignInCatch(S) ==
  Resolve([SetUser(S, Undefined) EXCEPT !.unauthenticated = TRUE])

\* signInManually, after `_user = await _backend.signIn(...)`
ManualAfterSignIn(S0, _user) ==
  LET S == [S0 EXCEPT !.unauthenticated = ~IsDefined(_user)]
  IN IF ~IsDefined(_user) THEN Resolve(S) ELSE BackendFetchFiles(SetUser(S, _user))
\* signInManually, the `catch` clause of the sign-in
ManualSignInCatch(S, ex) == Resolve(LogError([S EXCEPT !.unauthenticated = TRUE], ex))

\* The promise of _backend.signIn() settles and its caller goes on.
SignInResolved(S0, result) ==
  LET S == [S0 EXCEPT !.frame.signIn = "resolved", !.frame.signedIn = result]
  IN CASE S.frame.op = "signInAutomatically" -> AutoAfterSignIn(S, result)
       [] S.frame.op = "signInManually" -> ManualAfterSignIn(S, result)
       [] OTHER -> Resolve(S)
SignInRejected(S0, ex) ==
  LET S == [S0 EXCEPT !.frame.signIn = "rejected", !.frame.signInThrown = ex]
  IN CASE S.frame.op = "signInAutomatically" -> AutoSignInCatch(S)
       [] S.frame.op = "signInManually" -> ManualSignInCatch(S, ex)
       [] OTHER -> Reject(S, ex)

\* gitea.js getUserProfile, up to `await fetchAPI('/user', ...)`
GetUserProfile(S) == Request([S EXCEPT !.frame.pc = "await_user"], "/user", 0)
\* gitea.js getUserProfile, after it: the token of the `user` store wins
OnUserProfile(S) ==
  LET _user == S.user
      token == IF /\ IsDefined(_user)
                  /\ ValueOf(_user).token # ""
                  /\ ValueOf(_user).token # S.frame.token
                 THEN ValueOf(_user).token
                 ELSE S.frame.token
  IN SignInResolved(S, Some(Obj("gitea", token)))

\* Variant of signIn that starts the interactive flow in an automatic call too.
SignIn_IgnoresAuto(S) ==
  IF S.frame.token = ""
    THEN IF inPopup
           THEN [S EXCEPT !.frame.pc = "await_popup",
                          !.frame.backendCalls = @ \cup {"handleClientSideAuthPopup"}]
         ELSE [S EXCEPT !.frame.pc = "await_auth",
                        !.frame.backendCalls = @ \cup {"initClientSideAuth"}]
    ELSE GetUserProfile(S)
\* gitea.js signIn({ token, auto })
SignIn(S) ==
  IF S.frame.token = ""
    THEN IF inPopup
           THEN [S EXCEPT !.frame.pc = "await_popup",
                          !.frame.backendCalls = @ \cup {"handleClientSideAuthPopup"}]
         ELSE IF S.frame.auto THEN SignInResolved(S, Undefined)
         ELSE [S EXCEPT !.frame.pc = "await_auth",
                        !.frame.backendCalls = @ \cup {"initClientSideAuth"}]
    ELSE GetUserProfile(S)
\* gitea.js signIn, after `await handleClientSideAuthPopup(...)`
OnPopupHandled(S) == SignInResolved(S, Undefined)
\* gitea.js signIn, after `await initClientSideAuth(...)`
OnClientSideAuth(S, token) == GetUserProfile([S EXCEPT !.frame.token = token])

\* _backend.signIn({ token, auto })
BackendSignIn(S0, name, token, auto) ==
  LET S == [S0 EXCEPT !.frame.backend = name, !.frame.token = token,
                      !.frame.tokenGiven = token # "",
                      !.frame.auto = auto, !.frame.signIn = "pending",
                      !.frame.backendCalls = @ \cup {"signIn"}]
  IN IF name = "gitea" THEN SignIn(S) ELSE LocalSignIn(S)

\* JSON.parse(atob(encodedData)): the token and whether prefs are given; ok is
\* FALSE when the decoding throws, token is "" when the data has no token string.
DecodeSignInData(encodedData) ==
  CASE encodedData = "token" -> [ok |-> TRUE, token |-> "t2", prefs |-> FALSE]
    [] encodedData = "token+prefs" -> [ok |-> TRUE, token |-> "t2", prefs |-> TRUE]
    [] encodedData = "no-token" -> [ok |-> TRUE, token |-> "", prefs |-> TRUE]
    [] OTHER -> [ok |-> FALSE, token |-> "", prefs |-> FALSE]
SignInData == {"token", "token+prefs", "no-token", "garbage"}

\* signInAutomatically, up to `await _backend.signIn(...)`
SignInAutomatically(S0) ==
  LET Cached(key) == S0.LocalStorage[key]
      userCache == IF IsDefined(Cached("sveltia-cms.user")) THEN Cached("sveltia-cms.user")
                   ELSE IF IsDefined(Cached("decap-cms-user")) THEN Cached("decap-cms-user")
                   ELSE Cached("netlify-cms-user")
      hasUserCache == IsDefined(userCache)
      cachedUser == IF hasUserCache /\ ValueOf(userCache).backendName # ""
                      THEN userCache ELSE Undefined
      _backendName == IF IsDefined(cachedUser)
                         /\ ValueOf(cachedUser).backendName \in {"local", "proxy"}
                        THEN "local" ELSE SiteBackendName
      _backend == Backend(Some(_backendName))
      encodedData == IF ~IsDefined(cachedUser) /\ IsDefined(_backend) /\ S0.location # <<>>
                       THEN Some(S0.location[2]) ELSE Undefined
      data == IF IsDefined(encodedData) THEN DecodeSignInData(ValueOf(encodedData))
              ELSE [ok |-> FALSE, token |-> "", prefs |-> FALSE]
      tokenGiven == data.ok /\ data.token # ""
      _user == IF tokenGiven THEN Some(Obj("", data.token)) ELSE cachedUser
      S == [S0 EXCEPT !.backendName = Some(_backendName),
                      !.location = IF IsDefined(encodedData) THEN <<>> ELSE @,
                      !.frame.copiedPrefs = tokenGiven /\ data.prefs]
  IN IF hasUserCache /\ ObjectKeys(ValueOf(userCache)) = {}
       THEN Resolve(S0)
     ELSE IF IsDefined(_user) /\ IsDefined(_backend)
       THEN BackendSignIn(SetUser(S, _user), _backendName, ValueOf(_user).token, TRUE)
     ELSE Resolve([S EXCEPT !.unauthenticated = ~IsDefined(_user)])

\* signInManually(_backendName, token), up to `await _backend.signIn(...)`
SignInManually(S0, _backendName, token) ==
  LET S == [S0 EXCEPT !.backendName = Some(_backendName), !.signedOut = FALSE]
  IN IF ~IsDefined(Backend(Some(_backendName)))
       THEN Resolve(S)
       ELSE BackendSignIn(S, _backendName, token, FALSE)

\* signOut, up to `await get(backend)?.signOut()`
SignOut(S) ==
  [S EXCEPT !.frame.pc = "await_backend_sign_out",
            !.frame.backend = IF IsDefined(Backend(S.backendName))
                                THEN ValueOf(S.backendName) ELSE "",
            !.frame.backendCalls = IF IsDefined(Backend(S.backendName))
                                     THEN {"signOut"} ELSE {}]
\* Variant of OnBackendSignOut that leaves the cached user in place.
OnBackendSignOut_KeepsCache(S) ==
  [S EXCEPT !.frame.pc = "await_storage_set"]
\* signOut, up to `await LocalStorage.set('sveltia-cms.user', {})`
OnBackendSignOut(S) ==
  [S EXCEPT !.frame.pc = "await_storage_set",
            !.LocalStorage["sveltia-cms.user"] = Some(EmptyObject)]
\* signOut, the four store updates
OnStorageSet(S) ==
  Resolve([S EXCEPT !.backendName = Undefined, !.user = Undefined,
                    !.unauthenticated = TRUE, !.dataLoaded = FALSE,
                    !.signedOut = TRUE])

\* ------------------------------------------------- answers to requests
\* Each action is the answer to the request a flow awaits: a response of the
\* provider, or an error status.

VersionResponse(p) ==
  /\ frame[p].pc = "await_version"
  /\ \/ Apply(p, OnVersion(Cur(p), [version |-> version]))
     \/ \E status \in Statuses :
          Apply(p, FetchFilesRejected(Failed(Cur(p), "/version", status), ApiError(status)))

RepositoryResponse(p) ==
  /\ frame[p].pc = "await_repository"
  /\ \/ \E response \in RepositoryResponses : Apply(p, OnRepository(Cur(p), response))
     \/ \E status \in Statuses :
          Apply(p, OnRepositoryFailed(Failed(Cur(p), "/repos", status), ApiError(status)))

BranchResponse(p) ==
  /\ frame[p].pc = "await_branch"
  /\ \/ Apply(p, OnLastCommit(Cur(p)))
     \/ \E status \in Statuses :
          Apply(p, FetchFilesRejected(Failed(Cur(p), "/branches", status),
                                      LastCommitCatch(ApiError(status))))

TreeResponse(p) ==
  /\ frame[p].pc = "await_tree"
  /\ \/ Apply(p, OnTreePage(Cur(p), TreePage(frame[p].page)))
     \/ \E status \in Statuses :
          Apply(p, FetchFilesRejected(Failed(Cur(p), "/git/trees", status), ApiError(status)))

SettingsResponse(p) ==
  /\ frame[p].pc = "await_settings"
  /\ \/ Apply(p, OnSettings(Cur(p), pagingNum))
     \/ \E status \in Statuses :
          Apply(p, FetchFilesRejected(Failed(Cur(p), "/settings/api", status),
                                      ApiError(status)))

\* The number of bulk requests of the current fetchFiles call.
BulkRequests(f) == Cardinality({i \in DOMAIN f.log : f.log[i].endpoint = "/file-contents"})

FileContentsResponse(p) ==
  /\ frame[p].pc = "await_file_contents"
  /\ \/ /\ Len(frame[p].paths) # 0 => BulkRequests(frame[p]) < MaxBulkRequests
        /\ Apply(p, OnFileContents(Cur(p), FileContents(frame[p].batch)))
     \/ \E status \in Statuses :
          Apply(p, FetchFilesRejected(Failed(Cur(p), "/file-contents", status),
                                      ApiError(status)))

UserResponse(p) ==
  /\ frame[p].pc = "await_user"
  /\ \/ Apply(p, OnUserProfile(Cur(p)))
     \/ \E status \in Statuses :
          Apply(p, SignInRejected(Failed(Cur(p), "/user", status), ApiError(status)))

\* handleClientSideAuthPopup(...) has finished the flow in the popup
PopupHandled(p) ==
  /\ frame[p].pc = "await_popup"
  /\ Apply(p, OnPopupHandled(Cur(p)))

AbortError == [message |-> "Authentication aborted", name |-> "AbortError",
               cause |-> [message |-> "", status |-> 0]]
\* initClientSideAuth(...) yields a token, or the user closes the window
ClientSideAuthSettled(p) ==
  /\ frame[p].pc = "await_auth"
  /\ \/ Apply(p, OnClientSideAuth(Cur(p), "t2"))
     \/ Apply(p, SignInRejected(Cur(p), AbortError))

LocalError == [message |-> "local", name |-> "Error", cause |-> [message |-> "", status |-> 0]]
NotFoundError == [message |-> "not found", name |-> "NotFoundError",
                  cause |-> [message |-> "", status |-> 0]]
LocalSignInSettled(p) ==
  /\ frame[p].pc = "await_local_sign_in"
  /\ \/ \E result \in {Undefined, Some(Obj("local", ""))} :
          Apply(p, SignInResolved(Cur(p), result))
     \/ Apply(p, SignInRejected(Cur(p), NotFoundError))

LocalFetchFilesSettled(p) ==
  /\ frame[p].pc = "await_local_fetch"
  /\ \/ Apply(p, FetchAndParseFilesDone(Cur(p)))
     \/ Apply(p, FetchFilesRejected(Cur(p), NotFoundError))

\* backend.signOut() settles: Gitea's resolves, another backend's may fail
BackendSignOutSettled(p) ==
  /\ frame[p].pc = "await_backend_sign_out"
  /\ \/ Apply(p, OnBackendSignOut(Cur(p)))
     \/ /\ frame[p].backend = "local"
        /\ Apply(p, Reject(Cur(p), LocalError))

StorageSetDone(p) ==
  /\ frame[p].pc = "await_storage_set"
  /\ Apply(p, OnStorageSet(Cur(p)))

\* The answer to the request of commitChanges: the commit, or an error
ContentsResponse(p) ==
  /\ frame[p].pc = "await_contents"
  /\ \/ Apply(p, Resolve(Cur(p)))
     \/ \E status \in Statuses :
          Apply(p, Reject(Failed(Cur(p), "/contents", status), ApiError(status)))

\* The answer to the request of fetchBlob: the blob, or an error
MediaResponse(p) ==
  /\ frame[p].pc = "await_media"
  /\ \/ Apply(p, Resolve(Cur(p)))
     \/ \E status \in Statuses :
          Apply(p, Reject(Failed(Cur(p), "/media", status), ApiError(status)))

Answer(p) ==
  \/ VersionResponse(p)
  \/ RepositoryResponse(p)
  \/ BranchResponse(p)
  \/ TreeResponse(p)
  \/ SettingsResponse(p)
  \/ FileContentsResponse(p)

AuthAnswer(p) ==
  \/ UserResponse(p)
  \/ PopupHandled(p)
  \/ ClientSideAuthSettled(p)
  \/ LocalSignInSettled(p)
  \/ LocalFetchFilesSettled(p)
  \/ BackendSignOutSettled(p)
  \/ StorageSetDone(p)

\* ------------------------------------------------ synchronisation alone
\* backend.fetchFiles() called directly, by a signed-in session.
FetchFilesCall ==
  /\ frame["fetchFiles"].pc \in {"idle", "done"}
  /\ calls < MaxFetchCalls
  /\ Apply("fetchFiles",
           FetchFiles([Called(Cur("fetchFiles")) EXCEPT !.frame.backend = "gitea"]))

EntryKinds == {"dir", "entry", "asset"}
Trees == UNION {[1..n -> EntryKinds] : n \in 0..MaxEntries}
NoRequests == [endpoint \in {"/version", "/repos"} |-> 0]

InitSync ==
  /\ tree \in Trees
  /\ pageSize \in 1..MaxPageSize
  /\ pagingNum \in {Undefined} \cup {Some(n) : n \in 0..MaxPagingNum}
  /\ version \in Versions
  /\ inPopup = FALSE
  /\ location = <<>>
  /\ LocalStorage = [key \in StorageKeys |->
                       IF key = "sveltia-cms.user" THEN Some(Obj("gitea", "t1"))
                       ELSE Undefined]
  /\ repository \in {InitRepository(""), InitRepository("main")}
  /\ repositoryResponseCache = Undefined
  /\ user = Some(Obj("gitea", "t1"))
  /\ unauthenticated = FALSE
  /\ signInError = NoSignInError
  /\ backendName = Some("gitea")
  /\ dataLoaded = FALSE
  /\ dataLoadedProgress = NoProgress
  /\ prefs = "default"
  /\ frame = [p \in Procs |-> IdleFrame(p)]
  /\ siteConfig = GiteaConfig(repository.branch)
  /\ apiConfig = InitApiConfig
  /\ firstInit = FirstInit(repository, apiConfig)
  /\ sent = NoRequests
  /\ calls = 0
  /\ signedOut = FALSE

NextSync ==
  \/ FetchFilesCall
  \/ Answer("fetchFiles")

SpecSync == InitSync /\ [][NextSync]_vars

\* ------------------------------------------------------------ the session
\* No top-level call is pending.
Quiescent == \A p \in Procs : frame[p].pc \in {"idle", "done"}

SignInAutomaticallyCall ==
  /\ Quiescent /\ calls < MaxFlows
  /\ Apply("signInAutomatically", SignInAutomatically(Called(Cur("signInAutomatically"))))

SignInManuallyCall ==
  /\ Quiescent /\ calls < MaxFlows
  /\ \E name \in BackendNames \cup {"unknown"}, token \in {"", "t2"} :
       Apply("signInManually", SignInManually(Called(Cur("signInManually")), name, token))

SignOutCall ==
  /\ Quiescent /\ calls < MaxFlows
  /\ Apply("signOut", SignOut(Called(Cur("signOut"))))

StoredUsers ==
  {[key \in StorageKeys |-> Undefined],
   [key \in StorageKeys |-> IF key = "sveltia-cms.user" THEN Some(Obj("gitea", "t1"))
                            ELSE Undefined],
   [key \in StorageKeys |-> IF key = "sveltia-cms.user" THEN Some(Obj("local", ""))
                            ELSE Undefined],
   [key \in StorageKeys |-> IF key = "decap-cms-user" THEN Some(Obj("gitea", "t1"))
                            ELSE Undefined],
   [key \in StorageKeys |-> IF key = "sveltia-cms.user" THEN Some(EmptyObject)
                            ELSE IF key = "netlify-cms-user" THEN Some(Obj("gitea", "t1"))
                            ELSE Undefined]}

Init ==
  /\ tree = <<"entry", "asset">>
  /\ pageSize = 1
  /\ pagingNum = Some(1)
  /\ version \in Versions
  /\ inPopup \in BOOLEAN
  /\ location \in {<<>>, <<"signin", "token+prefs">>, <<"signin", "garbage">>}
  /\ LocalStorage \in StoredUsers
  /\ repository \in {InitRepository(""), InitRepository("main")}
  /\ repositoryResponseCache = Undefined
  /\ user = Undefined
  /\ unauthenticated = TRUE
  /\ signInError = NoSignInError
  /\ backendName = Undefined
  /\ dataLoaded = FALSE
  /\ dataLoadedProgress = NoProgress
  /\ prefs = "default"
  /\ frame = [p \in Procs |-> IdleFrame(p)]
  /\ siteConfig = GiteaConfig(repository.branch)
  /\ apiConfig = InitApiConfig
  /\ firstInit = FirstInit(repository, apiConfig)
  /\ sent = NoRequests
  /\ calls = 0
  /\ signedOut = FALSE

Next ==
  \/ SignInAutomaticallyCall
  \/ SignInManuallyCall
  \/ SignOutCall
  \/ \E p \in Procs : Answer(p)
  \/ \E p \in Procs : AuthAnswer(p)

Spec == Init /\ [][Next]_vars

\* ------------------------------------------------- the backend service
\* The operations of the Gitea backend service called directly, one after the
\* other, from the module's initial state.
BackendCalled(op) ==
  [Called(Cur("backend")) EXCEPT !.frame.op = op, !.frame.backend = "gitea"]

\* init() while the site configuration is `config`
InitWith(config) ==
  LET result == GiteaInit(config)
  IN /\ Quiescent /\ calls < MaxFlows
     /\ repository' = result.repository
     /\ apiConfig' = result.apiConfig
     /\ firstInit' = IF ~result.returned THEN firstInit
                     ELSE IF IsDefined(firstInit)
                       THEN Some([ValueOf(firstInit) EXCEPT !.again = TRUE])
                     ELSE FirstInit(result.repository, result.apiConfig)
     /\ calls' = calls + 1
     /\ frame' = [q \in Procs |-> IF frame[q].pc = "done" THEN IdleFrame(q) ELSE frame[q]]
     /\ UNCHANGED <<tree, pageSize, pagingNum, version, inPopup, location, LocalStorage,
                    repositoryResponseCache, user, unauthenticated, signInError,
                    backendName, dataLoaded, dataLoadedProgress, prefs, siteConfig,
                    sent, signedOut>>

InitCall == \E config \in {siteConfig, OtherConfig} : InitWith(config)

DirectSignInCall ==
  /\ Quiescent /\ calls < MaxFlows
  /\ \E token \in {"", "t2"}, auto \in BOOLEAN :
       Apply("backend", BackendSignIn(BackendCalled("signIn"), "gitea", token, auto))

\* signOut: `async () => undefined`
DirectSignOutCall ==
  /\ Quiescent /\ calls < MaxFlows
  /\ Apply("backend", Resolve(BackendCalled("signOut")))

DirectFetchFilesCall ==
  /\ Quiescent /\ calls < MaxFlows
  /\ Apply("fetchFiles",
           FetchFiles([Called(Cur("fetchFiles")) EXCEPT !.frame.backend = "gitea"]))

FetchBlobCall ==
  /\ Quiescent /\ calls < MaxFlows
  /\ Apply("backend", FetchBlob(BackendCalled("fetchBlob")))

Changes ==
  {Change("create", "a", Undefined, Some("a")), Change("update", "b", Undefined, Some("b")),
   Change("delete", "c", Undefined, Undefined), Change("move", "d", Some("e"), Some("d"))}
\* The lists of changes of a commit: at most one change for a path.
ChangeLists ==
  {changes \in UNION {[1..n -> Changes] : n \in 0..MaxChanges} :
     \A i, j \in DOMAIN changes : i # j => changes[i].path # changes[j].path}

CommitChangesCall ==
  /\ Quiescent /\ calls < MaxFlows
  /\ \E changes \in ChangeLists :
       Apply("backend", CommitChanges(BackendCalled("commitChanges"), changes))

InitBackend ==
  /\ tree = <<"entry">>
  /\ pageSize = 1
  /\ pagingNum = Some(1)
  /\ version = V_1_24_0
  /\ inPopup \in BOOLEAN
  /\ location = <<>>
  /\ LocalStorage = [key \in StorageKeys |->
                       IF key = "sveltia-cms.user" THEN Some(Obj("gitea", "t1"))
                       ELSE Undefined]
  /\ repository = REPOSITORY_INFO_PLACEHOLDER
  /\ repositoryResponseCache = Undefined
  /\ user = Some(Obj("gitea", "t1"))
  /\ unauthenticated = FALSE
  /\ signInError = NoSignInError
  /\ backendName = Some("gitea")
  /\ dataLoaded = FALSE
  /\ dataLoadedProgress = NoProgress
  /\ prefs = "default"
  /\ frame = [p \in Procs |-> IdleFrame(p)]
  /\ siteConfig \in {GiteaConfig(""), GiteaConfig("main")}
  /\ apiConfig = API_CONFIG_INFO_PLACEHOLDER
  /\ firstInit = Undefined
  /\ sent = NoRequests
  /\ calls = 0
  /\ signedOut = FALSE

NextBackend ==
  \/ InitCall
  \/ DirectSignInCall
  \/ DirectSignOutCall
  \/ DirectFetchFilesCall
  \/ FetchBlobCall
  \/ CommitChangesCall
  \/ \E p \in Procs : Answer(p)
  \/ \E p \in Procs : UserResponse(p)
  \/ \E p \in Procs : PopupHandled(p)
  \/ \E p \in Procs : ClientSideAuthSettled(p)
  \/ \E p \in Procs : ContentsResponse(p)
  \/ \E p \in Procs : MediaResponse(p)

SpecBackend == InitBackend /\ [][NextBackend]_vars

\* --------------------------------------------------- overlapping calls
\* The operations of the session manager called while others are pending, on a
\* Gitea site whose user is cached.
Idle(p) == frame[p].pc \in {"idle", "done"}

SignInAutomaticallyStart ==
  /\ Idle("signInAutomatically") /\ calls < MaxOverlap
  /\ Apply("signInAutomatically", SignInAutomatically(Called(Cur("signInAutomatically"))))

SignInManuallyStart ==
  /\ Idle("signInManually") /\ calls < MaxOverlap
  /\ Apply("signInManually", SignInManually(Called(Cur("signInManually")), "gitea", "t2"))

SignOutStart ==
  /\ Idle("signOut") /\ calls < MaxOverlap
  /\ Apply("signOut", SignOut(Called(Cur("signOut"))))

InitConc ==
  /\ tree = <<"entry">>
  /\ pageSize = 1
  /\ pagingNum = Some(1)
  /\ version = V_1_24_0
  /\ inPopup = FALSE
  /\ location = <<>>
  /\ LocalStorage = [key \in StorageKeys |->
                       IF key = "sveltia-cms.user" THEN Some(Obj("gitea", "t1"))
                       ELSE Undefined]
  /\ repository = InitRepository("")
  /\ repositoryResponseCache = Undefined
  /\ user = Undefined
  /\ unauthenticated = TRUE
  /\ signInError = NoSignInError
  /\ backendName = Undefined
  /\ dataLoaded = FALSE
  /\ dataLoadedProgress = NoProgress
  /\ prefs = "default"
  /\ frame = [p \in Procs |-> IdleFrame(p)]
  /\ siteConfig = GiteaConfig(repository.branch)
  /\ apiConfig = InitApiConfig
  /\ firstInit = FirstInit(repository, apiConfig)
  /\ sent = NoRequests
  /\ calls = 0
  /\ signedOut = FALSE

NextConc ==
  \/ SignInAutomaticallyStart
  \/ SignInManuallyStart
  \/ SignOutStart
  \/ \E p \in Procs : Answer(p)
  \/ \E p \in Procs : UserResponse(p)
  \/ \E p \in Procs : BackendSignOutSettled(p)
  \/ \E p \in Procs : StorageSetDone(p)

SpecConc == InitConc /\ [][NextConc]_vars

\* ------------------------------------------- two users of one repository
\* The provider's answer to GET /repos/{owner}/{repo} describes the user the
\* request is sent for: the user with the token "t1" may pull, any other may not.
RepositoryResponseFor(_user) ==
  [permissions |-> Some([pull |-> IsDefined(_user) /\ ValueOf(_user).token = "t1"]),
   default_branch |-> "main"]

\* The answer to getRepositoryInfo() for the signed-in user, or an error
UserRepositoryResponse(p) ==
  /\ frame[p].pc = "await_repository"
  /\ \/ Apply(p, OnRepository(Cur(p), RepositoryResponseFor(user)))
     \/ \E status \in Statuses :
          Apply(p, OnRepositoryFailed(Failed(Cur(p), "/repos", status), ApiError(status)))

\* signInManually('gitea', 't2')
SignInManuallyWithToken ==
  /\ Quiescent /\ calls < MaxFlows
  /\ Apply("signInManually", SignInManually(Called(Cur("signInManually")), "gitea", "t2"))

\* A session that starts with the user of the token "t1" in the cache.
InitUsers ==
  /\ tree = <<"entry">>
  /\ pageSize = 1
  /\ pagingNum = Some(1)
  /\ version = V_1_24_0
  /\ inPopup = FALSE
  /\ location = <<>>
  /\ LocalStorage = [key \in StorageKeys |->
                       IF key = "sveltia-cms.user" THEN Some(Obj("gitea", "t1"))
                       ELSE Undefined]
  /\ repository \in {InitRepository(""), InitRepository("main")}
  /\ repositoryResponseCache = Undefined
  /\ user = Undefined
  /\ unauthenticated = TRUE
  /\ signInError = NoSignInError
  /\ backendName = Undefined
  /\ dataLoaded = FALSE
  /\ dataLoadedProgress = NoProgress
  /\ prefs = "default"
  /\ frame = [p \in Procs |-> IdleFrame(p)]
  /\ siteConfig = GiteaConfig(repository.branch)
  /\ apiConfig = InitApiConfig
  /\ firstInit = FirstInit(repository, apiConfig)
  /\ sent = NoRequests
  /\ calls = 0
  /\ signedOut = FALSE

NextUsers ==
  \/ SignInAutomaticallyCall
  \/ SignInManuallyWithToken
  \/ SignOutCall
  \/ \E p \in Procs : VersionResponse(p)
  \/ \E p \in Procs : UserRepositoryResponse(p)
  \/ \E p \in Procs : BranchResponse(p)
  \/ \E p \in Procs : TreeResponse(p)
  \/ \E p \in Procs : SettingsResponse(p)
  \/ \E p \in Procs : FileContentsResponse(p)
  \/ \E p \in Procs : UserResponse(p)
  \/ \E p \in Procs : BackendSignOutSettled(p)
  \/ \E p \in Procs : StorageSetDone(p)

SpecUsers == InitUsers /\ [][NextUsers]_vars

\* ------------------------------------------------------------ properties
Sync == frame["fetchFiles"]
Endpoints(f) == {f.log[i].endpoint : i \in DOMAIN f.log}
RequestsTo(f, endpoint) == Cardinality({i \in DOMAIN f.log : f.log[i].endpoint = endpoint})
\* fetchFileList has returned in the flow's current fetchFiles call: the request
\* that follows it has been sent.
ListReturned(f) == "/settings/api" \in Endpoints(f)
BlobPaths == {i \in DOMAIN tree : tree[i] # "dir"}
ListedExactlyTheBlobs(f) ==
  /\ {f.fileList[i].path : i \in DOMAIN f.fileList} = BlobPaths
  /\ Len(f.fileList) = Cardinality(BlobPaths)

\* C1 (as amended): once fetchFileList has returned for a tree of N entries served
\* in pages of P, it has sent max(1, ceil(N/P)) page requests (one request for an
\* empty tree) and returned exactly the blob entries of the tree, each once.
C1_ListPagesAndBlobs ==
  ListReturned(Sync) =>
    /\ RequestsTo(Sync, "/git/trees") = Max(1, CeilDiv(Len(tree), pageSize))
    /\ ListedExactlyTheBlobs(Sync)

\* C1 (original): fetchFileList sends exactly ceil(N/P) page requests, for all
\* N >= 0 including N = 0, and returns exactly the blob entries.
C1_Original ==
  ListReturned(Sync) =>
    /\ RequestsTo(Sync, "/git/trees") = CeilDiv(Len(tree), pageSize)
    /\ ListedExactlyTheBlobs(Sync)

\* C1 witness: a tree of three entries, among them a directory, listed in two pages.
C1_Witness ==
  /\ ListReturned(Sync)
  /\ Len(tree) = 3 /\ pageSize = 2 /\ Cardinality(BlobPaths) = 2
  /\ RequestsTo(Sync, "/git/trees") = 2

\* The numbers fetchFileContents has published to dataLoadedProgress, in order.
IsNumeric(value) == value.t # "undefined"
NumericPublished(f) == SelectSeq(f.published, IsNumeric)
NonDecreasing(values) ==
  \A i \in 1..(Len(values) - 1) :
    values[i].t = "number" /\ values[i + 1].t = "number" /\ values[i].n <= values[i + 1].n

\* C2: once fetchFileContents has returned for M non-asset paths and a batch limit
\* B >= 1, it has sent exactly ceil(M/B) bulk requests, and the numbers it
\* published to dataLoadedProgress are non-decreasing and end at 100.
C2_BulkRequestsAndProgress ==
  (Sync.fetch = "resolved" /\ Sync.perPage >= 1) =>
    /\ RequestsTo(Sync, "/file-contents") = CeilDiv(Len(Sync.allPaths), Sync.perPage)
    /\ NonDecreasing(NumericPublished(Sync))
    /\ NumericPublished(Sync)[Len(NumericPublished(Sync))] = Num(100)

\* C3: whenever fetchFileContents has ended, by returning or by a failed request,
\* dataLoadedProgress is undefined.
C3_ProgressResetOnEnd ==
  (Sync.pc = "done" /\ "/settings/api" \in Endpoints(Sync)) =>
    dataLoadedProgress = NoProgress

NoPull(response) ==
  ~IsDefined(response.permissions) \/ ~ValueOf(response.permissions).pull
SyncEndpoints == {"/branches", "/git/trees", "/settings/api", "/file-contents"}

\* C4: a fetchFiles call whose access check reads a repository response with
\* permissions.pull false, or without permissions, is rejected with the
\* access-denied error (cause repository_no_access, not repository_not_found), and
\* has sent no last-commit, tree, settings or file-contents request and no second
\* repository-info (default branch) request.
C4_AccessDeniedBeforeSync ==
  \A p \in Procs :
    LET f == frame[p]
    IN (IsDefined(f.accessRead) /\ NoPull(ValueOf(f.accessRead))) =>
         /\ f.fetch = "rejected"
         /\ f.fetchError.message = "Not a collaborator of the repository"
         /\ f.fetchError.cause.message = "repository_no_access"
         /\ Endpoints(f) \cap SyncEndpoints = {}
         /\ RequestsTo(f, "/repos") <= 1

\* C4 witness: the second fetchFiles call of a session is denied on the cached
\* response, which has permissions.pull = false.
C4_Witness ==
  /\ Sync.callNo = 2 /\ Sync.pc = "done"
  /\ Sync.accessRead = Some([permissions |-> Some([pull |-> FALSE]), default_branch |-> "main"])
  /\ RequestsTo(Sync, "/repos") = 0

Auto == frame["signInAutomatically"]
Manual == frame["signInManually"]

\* C5: when signInAutomatically has ended after the Gitea provider answered one of
\* its requests (the profile request or a request of fetchFiles) with 401, it has
\* resolved and `unauthenticated` is true.
C5_Rejected401EndsUnauthenticated ==
  (Auto.pc = "done" /\ Auto.backend = "gitea" /\ Auto.failedStatus = 401) =>
    (Auto.outcome = "resolved" /\ unauthenticated)

\* C6: when signInAutomatically has ended after a request to the Gitea provider
\* failed, then a status 401, 403 or 404 left `unauthenticated` true and
\* signInError not set by the call, and any other status set signInError.
C6_AuthStatusesSoftOthersSurfaced ==
  (Auto.pc = "done" /\ Auto.backend = "gitea" /\ Auto.failedAt # "") =>
    IF Auto.failedStatus \in AuthStatuses
      THEN unauthenticated /\ ~Auto.logged
      ELSE Auto.logged /\ signInError # NoSignInError

\* C7: when the session's signOut has ended, it has resolved (also when the
\* backend's signOut failed) and the user store is undefined, `unauthenticated`
\* true, dataLoaded false, backendName undefined and the cached user {}.
C7_SignOutAlwaysSucceeds ==
  frame["signOut"].pc = "done" =>
    /\ frame["signOut"].outcome = "resolved"
    /\ user = Undefined
    /\ unauthenticated
    /\ ~dataLoaded
    /\ backendName = Undefined
    /\ LocalStorage["sveltia-cms.user"] = Some(EmptyObject)

\* C8: once signOut has completed and no manual sign-in has begun since, every
\* step of signInAutomatically ends the call at once, calls no backend operation,
\* sends no request and leaves user, unauthenticated and backendName unchanged.
C8_NoAutoSignInAfterSignOut ==
  [][(signedOut /\ frame'["signInAutomatically"] # frame["signInAutomatically"]
        /\ frame'["signInAutomatically"].pc # "idle") =>
       /\ frame'["signInAutomatically"].pc = "done"
       /\ frame'["signInAutomatically"].backendCalls = {}
       /\ frame'["signInAutomatically"].log = <<>>
       /\ user' = user
       /\ unauthenticated' = unauthenticated
       /\ backendName' = backendName]_vars

\* C8 witness: signInAutomatically has run after a signOut, with a Netlify CMS user
\* cache holding a token and a /signin/<data> path in the location.
C8_Witness ==
  /\ signedOut
  /\ Auto.pc = "done" /\ Auto.outcome = "resolved"
  /\ LocalStorage["netlify-cms-user"] = Some(Obj("gitea", "t1"))
  /\ location = <<"signin", "token+prefs">>

ForgejoVersion == Includes(version, FORGEJO_MARKER)
IsForgejoError(error) ==
  error.message = "Unsupported Forgejo version"
    /\ error.cause.message = "backend_unsupported_forgejo"

\* C9 (as amended): when the version string of the server contains '+gitea-', a
\* fetchFiles call whose /version request is answered is rejected with the Forgejo
\* error, whatever the numeric prefix, having sent no other request; signIn sends
\* no /version request and is never rejected with the Forgejo error.
C9_ForgejoRejectedByFetchFiles ==
  \A p \in Procs :
    LET f == frame[p]
    IN (ForgejoVersion /\ f.backend = "gitea") =>
         /\ f.fetch # "resolved"
         /\ (f.fetch = "rejected" /\ f.failedAt # "/version") =>
              /\ IsForgejoError(f.fetchError)
              /\ Endpoints(f) \subseteq {"/user", "/version"}
         /\ f.fetch = "none" => "/version" \notin Endpoints(f)
         /\ f.signIn = "rejected" => ~IsForgejoError(f.signInThrown)

\* C9 (original): when the version string contains '+gitea-', a sign-in that has
\* reached the provider and a fetchFiles call both reject with the Forgejo error.
C9_Original ==
  \A p \in Procs :
    LET f == frame[p]
    IN (ForgejoVersion /\ f.backend = "gitea") =>
         /\ (f.signIn \in {"resolved", "rejected"} /\ "/user" \in Endpoints(f)
               /\ f.failedAt # "/user") =>
              (f.signIn = "rejected" /\ IsForgejoError(f.signInThrown))
         /\ (f.fetch \in {"resolved", "rejected"} /\ f.failedAt # "/version") =>
              (f.fetch = "rejected" /\ IsForgejoError(f.fetchError))

\* C9 witness: on a server whose version has the marker and a numeric prefix above
\* the minimum, a manual sign-in got the user and its fetchFiles was rejected with
\* the Forgejo error.
C9_Witness ==
  /\ version = V_FORGEJO_11
  /\ ~LessThan(ParseFloat(version), MIN_GITEA_VERSION)
  /\ Manual.signIn = "resolved" /\ IsDefined(Manual.signedIn)
  /\ Manual.fetch = "rejected" /\ IsForgejoError(Manual.fetchError)

VersionFirst(f) ==
  \A i \in DOMAIN f.log :
    f.log[i].endpoint \in SyncEndpoints \cup {"/repos"} =>
      \E j \in 1..(i - 1) : f.log[j].endpoint = "/version"

\* C10 (as amended): the version check runs at the start of every fetchFiles call:
\* each call sends exactly one /version request, before every repository-info,
\* branch, tree, settings and file-contents request of the call, so a session
\* sends as many /version requests as it has made fetchFiles calls.
C10_VersionCheckedInEveryCall ==
  /\ \A p \in Procs :
       (frame[p].fetch # "none" /\ frame[p].backend = "gitea") =>
         (RequestsTo(frame[p], "/version") = 1 /\ VersionFirst(frame[p]))
  /\ sent["/version"] = calls

\* C10 (original): over the fetchFiles calls of a session the /version endpoint is
\* requested at most once, and before every other request of fetchFiles.
C10_Original ==
  /\ sent["/version"] <= 1
  /\ \A p \in Procs : VersionFirst(frame[p])

\* C10 witness: the second fetchFiles call of a session has completed.
C10_Witness ==
  /\ Sync.callNo = 2 /\ Sync.fetch = "resolved"
  /\ sent["/version"] = 2

\* fetchDefaultBranchName has failed in the flow's fetchFiles call on a repository
\* response without default branch: the access check passed on that response, no
\* branch is configured and the call was rejected though no request failed.
NoDefaultBranchFailure(f) ==
  /\ f.backend = "gitea"
  /\ IsDefined(f.accessRead) /\ ~NoPull(ValueOf(f.accessRead))
  /\ ValueOf(f.accessRead).default_branch = ""
  /\ repository.branch = ""
  /\ f.fetch = "rejected" /\ f.failedAt = ""

\* C11: when the repository-info lookup succeeds but reports no default branch,
\* fetchDefaultBranchName fails with the empty-repository error, whose cause
\* (repository_empty) differs from that of the repository-not-found error.
C11_EmptyRepositoryError ==
  \A p \in Procs :
    NoDefaultBranchFailure(frame[p]) =>
      /\ frame[p].fetchError.cause.message = "repository_empty"
      /\ frame[p].fetchError.cause.message # "repository_not_found"

\* The repository-info requests of the session are those of the calls at hand, and
\* each of them has been answered with a repository response.
RepositoryRequestsSucceeded ==
  LET asked == {p \in Procs : "/repos" \in Endpoints(frame[p])}
  IN /\ \A p \in asked : RequestsTo(frame[p], "/repos") = 1
     /\ sent["/repos"] = Cardinality(asked)
     /\ \A p \in asked : IsDefined(frame[p].accessRead) /\ frame[p].failedAt # "/repos"

\* C12: when every repository-info request of the session has succeeded (the first
\* one in particular), the repository-info endpoint has been requested at most
\* once, whatever the interleaving of the fetchFiles calls that needed it.
C12_RepositoryInfoRequestedOnce ==
  (sent["/repos"] > 0 /\ RepositoryRequestsSucceeded) => sent["/repos"] <= 1

Direct == frame["backend"]

\* C13: a commitChanges call sends exactly one request, whose file list has one
\* item per change in the same order; a 'move' change is there as operation
\* 'update' with from_path its previousPath and path its new path, and a create,
\* update or delete change keeps its action as operation.
C13_CommitInOneRequest ==
  (Direct.op = "commitChanges" /\ Direct.pc # "idle") =>
    /\ Len(Direct.log) = 1 /\ RequestsTo(Direct, "/contents") = 1
    /\ Direct.log[1].arg = Len(Direct.changes)
    /\ Len(Direct.files) = Len(Direct.changes)
    /\ \A i \in DOMAIN Direct.changes :
         LET change == Direct.changes[i]
             file == Direct.files[i]
         IN /\ file.path = change.path
            /\ change.action = "move" =>
                 (file.operation = "update" /\ file.from_path = change.previousPath)
            /\ change.action \in {"create", "update", "delete"} =>
                 file.operation = change.action

\* C13 witness: a commit of a move followed by a delete has been accepted.
C13_Witness ==
  /\ Direct.op = "commitChanges" /\ Direct.outcome = "resolved"
  /\ Direct.changes = <<Change("move", "d", Some("e"), Some("d")),
                        Change("delete", "c", Undefined, Undefined)>>
  /\ Direct.files[1].operation = "update" /\ Direct.files[1].from_path = Some("e")

\* C14: every init() after the first, with the site configuration unchanged, leaves
\* `repository` and `apiConfig` equal to what the first init() left, whatever ran in
\* between (a resolution of the default branch included).
C14_InitIdempotent ==
  [][(InitWith(siteConfig) /\ IsDefined(firstInit)) =>
       /\ repository' = ValueOf(firstInit).repository
       /\ apiConfig' = ValueOf(firstInit).apiConfig]_vars

\* C14 witness: init() has run again after a fetchFiles call resolved the default
\* branch of a site whose configuration names no branch.
C14_Witness ==
  /\ IsDefined(firstInit) /\ ValueOf(firstInit).again
  /\ siteConfig.branch = "" /\ dataLoaded
  /\ IsDefined(repositoryResponseCache)
  /\ ValueOf(repositoryResponseCache).default_branch = "main"
  /\ repository.branch = ""

\* C15: once the first init() has assigned databaseName, no step of init, signIn,
\* signOut, fetchFiles, fetchBlob or commitChanges changes it, and an init() under
\* a configuration that names another backend changes nothing of `repository` and
\* `apiConfig`.
C15_DatabaseNameStable ==
  [][/\ IsDefined(firstInit) =>
          /\ repository.databaseName = ValueOf(firstInit).repository.databaseName
          /\ repository'.databaseName = repository.databaseName
     /\ InitWith(OtherConfig) => (repository' = repository /\ apiConfig' = apiConfig)]_vars

\* C15 witness: after the first init() a fetchFiles call resolved the default
\* branch, and then init() ran under the configuration of another backend.
C15_Witness ==
  /\ IsDefined(firstInit) /\ ~ValueOf(firstInit).again
  /\ siteConfig.branch = "" /\ repository.branch = "main"
  /\ calls = 3 /\ \A p \in Procs : frame[p].pc = "idle"
  /\ repository.databaseName = <<"gitea", ":", "o", "/", "r">>

\* C16: a signIn call with auto = true and without a token never calls
\* initClientSideAuth and sends no request, and when it settles it has resolved
\* to undefined; a signIn call with a token calls neither initClientSideAuth nor
\* handleClientSideAuthPopup, and its first request, sent in the step of the call,
\* is the profile request.
C16_SignInWithoutInteraction ==
  (Direct.op = "signIn" /\ Direct.pc # "idle") =>
    /\ (Direct.auto /\ ~Direct.tokenGiven) =>
         /\ "initClientSideAuth" \notin Direct.backendCalls
         /\ Direct.pc # "await_auth"
         /\ Direct.log = <<>>
         /\ Direct.signIn # "rejected"
         /\ Direct.signIn = "resolved" =>
              (Direct.signedIn = Undefined /\ Direct.outcome = "resolved")
    /\ Direct.tokenGiven =>
         /\ Direct.backendCalls \cap {"initClientSideAuth", "handleClientSideAuthPopup"} = {}
         /\ Direct.pc \notin {"await_auth", "await_popup"}
         /\ Len(Direct.log) >= 1
         /\ Direct.log[1].endpoint = "/user"

\* C16 witness: outside the popup window an automatic signIn call without a token
\* has resolved to undefined.
C16_Witness ==
  /\ Direct.op = "signIn" /\ Direct.auto /\ ~Direct.tokenGiven /\ ~inPopup
  /\ Direct.pc = "done" /\ Direct.outcome = "resolved" /\ Direct.signedIn = Undefined

\* C17: in every state after init() the two branch-derived URLs are the ones
\* getBaseURLs gives for the current branch: both are '<baseURL>/src/branch/<branch>'
\* when a branch is set, and without one treeBaseURL is the base URL and
\* blobBaseURL is empty.
C17_BranchURLsAgree ==
  IsDefined(firstInit) =>
    /\ repository.baseURL = <<"https://gitea.com", "/", "o", "/", "r">>
    /\ IF repository.branch # ""
         THEN /\ repository.treeBaseURL =
                   repository.baseURL \o <<"/src/branch/", repository.branch>>
              /\ repository.blobBaseURL = repository.treeBaseURL
         ELSE /\ repository.treeBaseURL = repository.baseURL
              /\ repository.blobBaseURL = <<>>

\* C17 witness: init() ran without a configured branch and fetchDefaultBranchName
\* has set the branch of the repository response.
C17_Witness ==
  /\ IsDefined(firstInit) /\ ValueOf(firstInit).repository.branch = ""
  /\ repository.branch = "main"
  /\ repository.blobBaseURL = repository.baseURL \o <<"/src/branch/", "main">>

\* The page numbers of the tree requests of a call, in the order they were sent.
IsTreeRequest(request) == request.endpoint = "/git/trees"
TreePagesRequested(f) ==
  LET requests == SelectSeq(f.log, IsTreeRequest)
  IN [i \in 1..Len(requests) |-> requests[i].arg]
\* The entries of the responses to the pages 1..k.
RECURSIVE PagesReceived(_)
PagesReceived(k) == IF k <= 0 THEN <<>> ELSE PagesReceived(k - 1) \o TreePage(k).tree
\* The bulk requests of a call that have been answered, with a result or an error.
BulkAnswered(f) ==
  (IF f.published = <<>> THEN 0 ELSE Len(NumericPublished(f)) - 1)
  + (IF f.failedAt = "/file-contents" THEN 1 ELSE 0)

\* C18: in every state of a fetchFiles call the tree requests sent so far are for
\* the pages 1, 2, ..., n in this order, every page before the last requested one
\* has been answered with truncated = true and its entries have been received
\* before the next request (so no page follows a response with truncated = false),
\* and at most one bulk request is unanswered: the last one, while the call waits
\* for it.
C18_SequentialRequests ==
  LET f == Sync
      pages == TreePagesRequested(f)
      n == Len(pages)
      waiting == f.pc = "await_tree" \/ f.failedAt = "/git/trees"
      unanswered == RequestsTo(f, "/file-contents") - BulkAnswered(f)
  IN /\ \A i \in 1..n : pages[i] = i
     /\ \A i \in 1..(n - 1) : TreePage(i).truncated
     /\ n > 0 => f.gitEntries = PagesReceived(IF waiting THEN n - 1 ELSE n)
     /\ (n > 0 /\ ~waiting) => ~TreePage(n).truncated
     /\ unanswered \in {0, 1}
     /\ unanswered = 1 <=> f.pc = "await_file_contents"

\* C18 witness: a call has returned after three tree pages and two bulk requests.
C18_Witness ==
  /\ Sync.fetch = "resolved"
  /\ TreePagesRequested(Sync) = <<1, 2, 3>>
  /\ RequestsTo(Sync, "/file-contents") = 2

\* C19: once signInAutomatically has called the backend's signIn, and once it
\* has resolved, the location path is no longer of the form /signin/<data>.
C19_SignInPathReplaced ==
  /\ "signIn" \in Auto.backendCalls => location = <<>>
  /\ (Auto.pc = "done" /\ Auto.outcome = "resolved") => location = <<>>

\* C20: when fetchFileContents has returned, the map gives every non-asset path
\* of the file list the decoded text of the result fetched for that path (the
\* provider's text of the file at a path is the path itself).
C20_ContentsOfTheSamePath ==
  Sync.fetch = "resolved" =>
    \A i \in DOMAIN Sync.fetchingFiles :
      LET file == Sync.fetchingFiles[i]
      IN file.type # "asset" =>
           /\ file.path \in DOMAIN Sync.contents
           /\ Sync.contents[file.path].text = Some(file.path)

\* C21: once the backend's signIn, called by signInManually with the token "t2",
\* has resolved to a user, the user store holds a user with the token "t2".
C21_ManualTokenStored ==
  (/\ Manual.backend = "gitea" /\ Manual.tokenGiven
   /\ Manual.signIn = "resolved" /\ IsDefined(Manual.signedIn)) =>
    /\ IsDefined(user)
    /\ ValueOf(user).token = "t2"

\* C22: whenever no signInAutomatically, signInManually or signOut call is in
\* progress, unauthenticated is true exactly when the user store is undefined.
C22_UnauthenticatedIffNoUser ==
  Quiescent => (unauthenticated <=> ~IsDefined(user))

\* C23: once a signOut call has completed, and as long as every sign-in call was
\* invoked before that signOut call, the user store is undefined and
\* unauthenticated is true.
C23_SignedOutStays ==
  LET out == frame["signOut"]
  IN (/\ out.pc = "done" /\ out.outcome = "resolved"
      /\ \A p \in {"signInAutomatically", "signInManually"} : frame[p].callNo < out.callNo) =>
       (~IsDefined(user) /\ unauthenticated)

\* C24: a fetchFileContents call for M non-asset paths sends at most max(1, M)
\* bulk requests, whatever batch limit the provider reports: every request but
\* the last takes at least one of the remaining paths.
C24_BulkRequestsBounded ==
  RequestsTo(Sync, "/file-contents") <= Max(1, Len(Sync.allPaths))

\* C25: a fetchFiles call of a session signed in as the user of the token "t2",
\* who may not pull, sends no last-commit, tree, settings or file-contents
\* request, and once its access check has read a repository response it is
\* rejected with the access-denied error.
C25_AccessCheckedForCurrentUser ==
  \A p \in Procs :
    LET f == frame[p]
    IN (/\ f.backend = "gitea"
        /\ IsDefined(f.signedIn) /\ ValueOf(f.signedIn).token = "t2") =>
         /\ Endpoints(f) \cap SyncEndpoints = {}
         /\ IsDefined(f.accessRead) =>
              /\ f.fetch = "rejected"
              /\ f.fetchError.cause.message = "repository_no_access"

====
